---------------------------- MODULE Spec2Model ----------------------------
(***************************************************************************)
(* A state-machine model of bkchem's textatom (src/bkchem/textatom.py): a  *)
(* text-only vertex of a molecular graph, drawn on a Tk canvas ("paper")   *)
(* and stored in CDML documents.                                           *)
(*                                                                         *)
(* The atom is one record (its attributes); the paper is the canvas        *)
(* display list, the id registry and the id counter.  Every method of the  *)
(* class is an operator from the state before the call to the state after  *)
(* it, and every action applies one method.                                *)
(***************************************************************************)
EXTENDS Integers, Sequences, FiniteSets

VARIABLES
  atom,       \* the textatom's attributes (self.*)
  neighbors,  \* x coordinates of the vertices bound to the atom (get_neighbors)
  canvas,     \* the paper's display list: canvas objects, bottom to top
  registry,   \* the paper's id registry: item ids registered to the atom
  nextid,     \* the id the canvas gives to the next object it creates
  last        \* the last call made on the atom and the exception that ended it

vars == <<atom, neighbors, canvas, registry, nextid, last>>

----------------------------------------------------------------------------
(* Bounds of the model *)

\* coordinates range over 0..MaxCoord
MaxCoord == 1
\* a label holds at most MaxNameLen tokens
MaxNameLen == 1
\* the atom is drawn at most MaxDraws times in one run (each draw takes 3 ids)
MaxDraws == 2
\* the atom has at most MaxNeighbors neighbours
MaxNeighbors == 1

Coords == 0..MaxCoord

----------------------------------------------------------------------------
(* Python values *)

\* None where a string is expected (self.pos = None)
None == "None"
\* None where a canvas handle is expected (self.item = None); Tk ids start at 1
NoHandle == 0

\* Python truth of a string-or-None value: None and '' are false
Truthy(s) == s # None /\ s # ""

CenterFirst == "center-first"
CenterLast == "center-last"
Modes == {CenterFirst, CenterLast}

Ids == {"a1", "a2"}
Molecules == {None, "m1"}
FontSizes == {8, 12, 18}
FontFamilies == {"helvetica", "times"}
LineColors == {"#000", "#a00"}
AreaColors == {"", "#ff0"}

\* paper.standard: the values meta_enabled.__init__ copies into a new atom
standard ==
  [font_size |-> 12, font_family |-> "helvetica", line_color |-> "#000", area_color |-> ""]

----------------------------------------------------------------------------
(* Labels and their XML form *)

\* A label (self.name) is a string of XML markup, held as its tokens: a plain
\* character, a literal '>' or '"', the entity references '&gt;' and '&quot;',
\* an element.
NameTokens == {"C", ">", "&gt;", "\"", "&quot;", "<sub>3</sub>"}

RECURSIVE SeqsUpTo(_, _)
SeqsUpTo(S, n) ==
  IF n = 0 THEN {<<>>}
  ELSE LET shorter == SeqsUpTo(S, n - 1)
       IN shorter \cup {Append(s, t) : s \in {q \in shorter : Len(q) = n - 1}, t \in S}

Names == SeqsUpTo(NameTokens, MaxNameLen)

\* dom.parseString: an entity reference becomes the character it names;
\* characters and elements become nodes of the tree
parse_token(t) == IF t = "&gt;" THEN ">" ELSE IF t = "&quot;" THEN "\"" ELSE t
parseString(name) == [i \in 1..Len(name) |-> parse_token(name[i])]

\* node.toxml(): character data is written with '>' and '"' escaped
toxml_node(n) == IF n = ">" THEN "&gt;" ELSE IF n = "\"" THEN "&quot;" ELSE n
toxml(nodes) == [i \in 1..Len(nodes) |-> toxml_node(nodes[i])]

\* the DOM contents a document's ftext element can have
Contents == {parseString(n) : n \in Names}

----------------------------------------------------------------------------
(* The paper: unit and coordinate conversions *)

\* px per unit of length in a document, and real units per screen px
TextPerPx == 5
RealPerScreen == 2

\* paper.px_to_text_with_unit: a length as the text of a number and its unit
px_to_text_with_unit(px) == <<px * TextPerPx, "cm">>

\* paper.any_to_px on an attribute's text: '' gives None (here <<>>), a number
\* with its unit gives <<px>>
any_to_px(t) == IF t = <<>> THEN <<>> ELSE <<t[1] \div TextPerPx>>

\* paper.read_xml_point: the x, y, z attributes of a point element through any_to_px
read_xml_point(point) ==
  [x |-> any_to_px(point.x), y |-> any_to_px(point.y), z |-> any_to_px(point.z)]

\* paper.screen_to_real_ratio() as a factor, paper.real_to_screen_ratio() its inverse
screen_to_real(v) == v * RealPerScreen
real_to_screen(v) == v \div RealPerScreen

----------------------------------------------------------------------------
(* The paper: the canvas.  A world w holds the atom (a), its neighbours    *)
(* (nb), the display list (c), the id registry (reg) and the id counter    *)
(* (nid).                                                                  *)

World == [a |-> atom, nb |-> neighbors, c |-> canvas, reg |-> registry, nid |-> nextid]

CanvasIds(c) == {c[i].id : i \in DOMAIN c}
Obj(c, id) == c[CHOOSE i \in DOMAIN c : c[i].id = id]

\* paper.create_rectangle / ftext.draw: a new object on top, with a fresh id
paper_create(w, kind, box, outline, fill) ==
  [w EXCEPT !.c = Append(@, [id |-> w.nid, kind |-> kind, box |-> box,
                             outline |-> outline, fill |-> fill]),
            !.nid = @ + 1]

\* paper.delete( id): the object leaves the canvas; nothing happens for other handles
paper_delete(w, id) == [w EXCEPT !.c = SelectSeq(@, LAMBDA o : o.id # id)]

MoveBox(b, dx, dy) == [x1 |-> b.x1 + dx, y1 |-> b.y1 + dy, x2 |-> b.x2 + dx, y2 |-> b.y2 + dy]

\* paper.move( id, dx, dy)
paper_move(w, id, dx, dy) ==
  [w EXCEPT !.c = [i \in DOMAIN @ |->
                     IF @[i].id = id THEN [@[i] EXCEPT !.box = MoveBox(@, dx, dy)] ELSE @[i]]]

\* paper.itemconfig( id, outline=...)
paper_itemconfig_outline(w, id, outline) ==
  [w EXCEPT !.c = [i \in DOMAIN @ |->
                     IF @[i].id = id THEN [@[i] EXCEPT !.outline = outline] ELSE @[i]]]

\* paper.itemconfig( id, fill=...)
paper_itemconfig_fill(w, id, fill) ==
  [w EXCEPT !.c = [i \in DOMAIN @ |->
                     IF @[i].id = id THEN [@[i] EXCEPT !.fill = fill] ELSE @[i]]]

\* paper.lift( id): the object goes to the top of the display list
paper_lift(w, id) ==
  [w EXCEPT !.c = SelectSeq(@, LAMBDA o : o.id # id) \o SelectSeq(@, LAMBDA o : o.id = id)]

\* paper.register_id( id, object) and paper.unregister_id( id)
paper_register_id(w, id) == [w EXCEPT !.reg = @ \cup {id}]
paper_unregister_id(w, id) == [w EXCEPT !.reg = @ \ {id}]

\* tkFont.Font.measure: the width of a text in a font
measure(font, text) == Len(text) * font.size

\* ftext.bbox() of a text drawn at (x, y): it starts at x when centered on its
\* first character and ends at x when centered on its last
ftext_bbox(x, y, text, font, pos) ==
  LET length == measure(font, parseString(text))
  IN IF pos = CenterFirst
     THEN [x1 |-> x, y1 |-> y - font.size, x2 |-> x + length, y2 |-> y]
     ELSE [x1 |-> x - length, y1 |-> y - font.size, x2 |-> x, y2 |-> y]

----------------------------------------------------------------------------
(* textatom: the properties.  A setter takes the atom and the value and gives *)
(* the atom after the assignment.                                             *)

\* self.x = x: paper.any_to_px leaves a plain number as it is
set_x(a, x) == [a EXCEPT !.x = x]
set_y(a, y) == [a EXCEPT !.y = y]
set_z(a, z) == [a EXCEPT !.z = z]
set_molecule(a, mol) == [a EXCEPT !.molecule = mol]

\* self.name = name: unicode() and encode('utf-8') give the same string back
set_name_property(a, name) == [a EXCEPT !.name = name, !.dirty = 1]

set_pos(a, pos) == [a EXCEPT !.pos = pos, !.dirty = 1]

\* a font_size setter that does not mark the atom
set_font_size_unmarked(a, font_size) == [a EXCEPT !.font_size = font_size]
set_font_size(a, font_size) == [a EXCEPT !.font_size = font_size, !.dirty = 1]

\* text_like.font_family, area_colored.area_color, line_colored.line_color
set_font_family(a, font_family) == [a EXCEPT !.font_family = font_family, !.dirty = 1]
set_line_color(a, color) == [a EXCEPT !.line_color = color, !.dirty = 1]
set_area_color(a, color) == [a EXCEPT !.area_color = color, !.dirty = 1]

\* charge and valency: constant getters, setters that do nothing
get_charge(a) == 0
\* a charge setter that marks the atom dirty like the setters of name and pos
set_charge_dirty(a, charge) == [a EXCEPT !.dirty = 1]
set_charge(a, charge) == a
get_valency(a) == 1
set_valency(a, val) == a

\* drawn: 1 when the atom holds an item
drawn(a) == IF a.item # NoHandle THEN 1 ELSE 0

set_name(a, name) == set_name_property(a, name)
get_text(a) == a.name
get_ftext(a) == a.name
get_xy(a) == <<a.x, a.y>>

\* get_xyz( real=1)
get_xyz_real(a) == <<screen_to_real(a.x), screen_to_real(a.y), a.z * RealPerScreen>>

update_font(a) == [a EXCEPT !.font = [family |-> a.font_family, size |-> a.font_size]]

\* int( round( font_size * ratio)) for a ratio num/den; round() takes a half upwards
scaled_size(font_size, num, den) == (2 * font_size * num + den) \div (2 * den)

scale_font(a, num, den) == update_font(set_font_size(a, scaled_size(a.font_size, num, den)))

\* p of decide_pos: neighbours to the right minus neighbours to the left
RECURSIVE balance(_, _)
balance(nb, x) ==
  IF nb = <<>> THEN 0
  ELSE balance(Tail(nb), x)
       + (IF Head(nb) < x THEN -1 ELSE IF Head(nb) > x THEN 1 ELSE 0)

decide_pos(a, nb) ==
  IF balance(nb, a.x) > 0 THEN set_pos(a, CenterLast) ELSE set_pos(a, CenterFirst)

\* copy_settings( self, other), as it acts on other: other.pos = self.pos after
\* the parents' copy_settings have copied the colors and the font
copy_settings(other, from) ==
  set_pos([other EXCEPT !.line_color = from.line_color, !.area_color = from.area_color,
                        !.font_size = from.font_size, !.font_family = from.font_family,
                        !.dirty = 1],
          from.pos)

\* bbox() of an atom that is not drawn, in tenths of a px; the label is not empty
bbox_undrawn(a) ==
  LET length == measure(a.font, get_text(a))
      fs == a.font_size
  IN IF a.pos = CenterFirst
     THEN LET dx == measure(a.font, <<get_text(a)[1]>>) \div 2
          IN <<10 * (a.x + length - dx), 10 * a.y + 3 * fs, 10 * (a.x - dx), 10 * a.y - 7 * fs>>
     ELSE LET dx == measure(a.font, <<get_text(a)[Len(get_text(a))]>>) \div 2
          IN <<10 * (a.x + dx), 10 * a.y + 3 * fs, 10 * (a.x - length + dx), 10 * a.y - 7 * fs>>

----------------------------------------------------------------------------
(* textatom: the methods that act on the canvas.  Each takes the world     *)
(* before the call and gives the world after it; a method is the           *)
(* composition of its statements, the last statement outermost.            *)

\* draw() that draws with the pos it finds
draw_prepare_undecided(w) == [w EXCEPT !.a = update_font(@)]

\* draw(): self.update_font(); if not self.pos: self.decide_pos()
draw_prepare(w) ==
  [w EXCEPT !.a = IF ~Truthy(update_font(@).pos)
                  THEN decide_pos(update_font(@), w.nb) ELSE update_font(@)]

\* self.text = self.get_ftext()
draw_text(w) == [w EXCEPT !.a.text = get_ftext(w.a)]

\* the bounding box of the text draw() is about to draw
draw_bbox(w) == ftext_bbox(w.a.x, w.a.y, w.a.text, w.a.font, w.a.pos)

\* self.ftext = ftext( ...); self.ftext.draw()
draw_ftext(w) ==
  [paper_create(w, "ftext", draw_bbox(w), "", w.a.line_color) EXCEPT !.a.ftext = w.nid]

\* the box of the rectangles: self.ftext.bbox()
drawn_bbox(w) == Obj(w.c, w.a.ftext).box

\* self.item = self.paper.create_rectangle( x1, y1, x2, y2, fill='', outline='')
draw_item(w) == [paper_create(w, "item", drawn_bbox(w), "", "") EXCEPT !.a.item = w.nid]

\* self.selector = self.paper.create_rectangle( x1, y1, x2, y2-3, fill=self.area_color, outline='')
draw_selector(w) ==
  [paper_create(w, "selector", [drawn_bbox(w) EXCEPT !.y2 = @ - 3], "", w.a.area_color)
     EXCEPT !.a.selector = w.nid]

\* self.ftext.lift(); self.paper.lift( self.item)
draw_lift_ftext(w) == paper_lift(w, w.a.ftext)
draw_lift_item(w) == paper_lift(w, w.a.item)

\* self.paper.register_id( self.item, self)
draw_register(w) == paper_register_id(w, w.a.item)

\* draw(): a drawn atom is drawn again after a warning, over its old objects
draw(w) ==
  draw_register(draw_lift_item(draw_lift_ftext(
    draw_selector(draw_item(draw_ftext(draw_text(draw_prepare(w))))))))

select(w) == [paper_itemconfig_outline(w, w.a.selector, "black") EXCEPT !.a._selected = 1]

unselect(w) == [paper_itemconfig_outline(w, w.a.selector, "") EXCEPT !.a._selected = 0]

focus(w) == paper_itemconfig_fill(w, w.a.selector, "grey")

unfocus(w) == paper_itemconfig_fill(w, w.a.selector, w.a.area_color)

\* redraw(): self.update_font()
redraw_font(w) == [w EXCEPT !.a = update_font(@)]

\* self.paper.unregister_id( self.item); self.paper.delete( self.item)
redraw_item(w) == paper_delete(paper_unregister_id(w, w.a.item), w.a.item)

\* if self.selector: self.paper.delete( self.selector)
redraw_selector(w) == IF w.a.selector # NoHandle THEN paper_delete(w, w.a.selector) ELSE w

\* if self.ftext: self.ftext.delete(); then self.item = None
redraw_ftext(w) ==
  [(IF w.a.ftext # NoHandle THEN paper_delete(w, w.a.ftext) ELSE w) EXCEPT !.a.item = NoHandle]

\* a redraw that does not bring the selection back to the new selector
redraw_selection_dropped(w) == w

\* if self._selected: self.select() else: self.unselect()
redraw_selection(w) == IF w.a._selected # 0 THEN select(w) ELSE unselect(w)

\* self.dirty = 0
redraw_clean(w) == [w EXCEPT !.a.dirty = 0]

redraw(w) ==
  redraw_clean(redraw_selection(draw(
    redraw_ftext(redraw_selector(redraw_item(redraw_font(w)))))))

\* move(): self.x += dx; self.y += dy
move_xy(w, dx, dy) == [w EXCEPT !.a = set_y(set_x(@, @.x + dx), @.y + dy)]

\* if self.drawn: the item, then the selector and the ftext the atom holds
move_item(w, dx, dy) == IF drawn(w.a) = 1 THEN paper_move(w, w.a.item, dx, dy) ELSE w

move_selector(w, dx, dy) ==
  IF drawn(w.a) = 1 /\ w.a.selector # NoHandle THEN paper_move(w, w.a.selector, dx, dy) ELSE w

\* a move that leaves the text where it was
move_ftext_forgotten(w, dx, dy) == w

move_ftext(w, dx, dy) ==
  IF drawn(w.a) = 1 /\ w.a.ftext # NoHandle THEN paper_move(w, w.a.ftext, dx, dy) ELSE w

move(w, dx, dy) == move_ftext(move_selector(move_item(move_xy(w, dx, dy), dx, dy), dx, dy), dx, dy)

move_to(w, x, y) == move(w, x - w.a.x, y - w.a.y)

\* delete(): if self.focus_item: self.unfocus()
delete_focus(w) == IF w.a.focus_item # NoHandle THEN unfocus(w) ELSE w

\* if self.selector: unselect, delete the selector, forget it
delete_selector(w) ==
  IF w.a.selector # NoHandle
  THEN [paper_delete(unselect(w), w.a.selector) EXCEPT !.a.selector = NoHandle, !.a._selected = 0]
  ELSE w

\* if self.item: unregister it, delete it, forget it
delete_item(w) ==
  IF w.a.item # NoHandle
  THEN [paper_delete(paper_unregister_id(w, w.a.item), w.a.item) EXCEPT !.a.item = NoHandle]
  ELSE w

\* if self.ftext: self.ftext.delete()
delete_ftext(w) == IF w.a.ftext # NoHandle THEN paper_delete(w, w.a.ftext) ELSE w

delete(w) == delete_ftext(delete_item(delete_selector(delete_focus(w))))

\* the pos toggle_center( mode) assigns
toggled_pos(pos, mode) ==
  IF mode = 0 THEN (IF pos = CenterLast THEN CenterFirst ELSE CenterLast)
  ELSE IF mode = -1 THEN CenterFirst
  ELSE CenterLast

toggle_pos(w, mode) == [w EXCEPT !.a = set_pos(@, toggled_pos(@.pos, mode))]

toggle_center(w, mode) == redraw(toggle_pos(w, mode))

\* lift(): the selector, the ftext, the item, each if the atom holds it
lift_selector(w) == IF w.a.selector # NoHandle THEN paper_lift(w, w.a.selector) ELSE w
lift_ftext(w) == IF w.a.ftext # NoHandle THEN paper_lift(w, w.a.ftext) ELSE w
lift_item(w) == IF w.a.item # NoHandle THEN paper_lift(w, w.a.item) ELSE w

lift(w) == lift_item(lift_ftext(lift_selector(w)))

----------------------------------------------------------------------------
(* textatom and its CDML element.  An element (package) is a record of its *)
(* attributes (id, pos, bg for background-color; '' when absent) and of    *)
(* the lists getElementsByTagName gives for point, ftext and font.         *)

\* get_package with the z of the point left out
get_package_without_z(a) ==
  LET xyz == get_xyz_real(a)
  IN [id |-> a.id, pos |-> "", font |-> <<>>, ftext |-> <<parseString(a.name)>>, bg |-> "",
      point |-> <<[x |-> px_to_text_with_unit(xyz[1]), y |-> px_to_text_with_unit(xyz[2]),
                   z |-> <<>>]>>]

get_package(a) ==
  LET xyz == get_xyz_real(a)
      x == px_to_text_with_unit(xyz[1])
      y == px_to_text_with_unit(xyz[2])
      z == px_to_text_with_unit(xyz[3])
  IN [id |-> a.id,
      pos |-> "",
      font |-> IF \/ a.font_size # standard.font_size
                  \/ a.font_family # standard.font_family
                  \/ a.line_color # standard.line_color
               THEN <<[size |-> a.font_size, family |-> a.font_family,
                       color |-> IF a.line_color # standard.line_color
                                 THEN a.line_color ELSE ""]>>
               ELSE <<>>,
      ftext |-> <<parseString(a.name)>>,
      bg |-> IF a.area_color # standard.area_color THEN a.area_color ELSE "",
      point |-> IF a.z # 0 THEN <<[x |-> x, y |-> y, z |-> z]>>
                ELSE <<[x |-> x, y |-> y, z |-> <<>>]>>]

\* read_package( package): the atom after the call and the exception that ended
\* it ('' when it returned)
read_package(a, package) ==
  LET a1 == set_pos([a EXCEPT !.id = package.id], package.pos)
  IN IF package.point = <<>> THEN [a |-> a1, exc |-> "IndexError"]
     ELSE
       LET xyz == read_xml_point(package.point[1])
           a2 == IF xyz.z # <<>> THEN set_z(a1, real_to_screen(xyz.z[1])) ELSE a1
           a3 == set_y(set_x(a2, real_to_screen(xyz.x[1])), real_to_screen(xyz.y[1]))
       IN IF package.ftext = <<>> THEN [a |-> a3, exc |-> "not text atom"]
          ELSE
            LET a4 == set_name(a3, toxml(package.ftext[1]))
                fnt == package.font
                a5 == IF fnt # <<>>
                      THEN LET a51 == set_font_family(set_font_size(a4, fnt[1].size),
                                                      fnt[1].family)
                           IN IF fnt[1].color # "" THEN set_line_color(a51, fnt[1].color)
                              ELSE a51
                      ELSE a4
                a6 == IF package.bg # "" THEN set_area_color(a5, package.bg) ELSE a5
            IN [a |-> a6, exc |-> ""]

\* __init__ up to the reading of the package: the standard values, no handles,
\* pos undecided, an empty label
new_atom(id, x, y, molecule) ==
  [id |-> id, x |-> x, y |-> y, z |-> 0, molecule |-> molecule,
   selector |-> NoHandle, _selected |-> 0, item |-> NoHandle, ftext |-> NoHandle,
   pos |-> None, focus_item |-> NoHandle, text |-> <<>>, name |-> <<>>, dirty |-> 1,
   font_size |-> standard.font_size, font_family |-> standard.font_family,
   line_color |-> standard.line_color, area_color |-> standard.area_color,
   font |-> [family |-> standard.font_family, size |-> standard.font_size]]

\* textatom( paper, xy=(x, y), molecule=molecule)
init_xy(id, x, y, molecule) == update_font(new_atom(id, x, y, molecule))

\* textatom( paper, package=package, molecule=molecule): the new atom and the
\* exception that ended the construction ('' when there is an atom)
init_package(package, molecule) ==
  LET r == read_package(new_atom(package.id, 0, 0, molecule), package)
  IN [a |-> update_font(r.a), exc |-> r.exc]

\* the texts of the coordinates a document can hold
CoordTexts == {px_to_text_with_unit(screen_to_real(c)) : c \in Coords}

Points == [x : CoordTexts, y : CoordTexts, z : CoordTexts \cup {<<>>}]
Fonts == [size : FontSizes, family : FontFamilies, color : LineColors \cup {""}]

\* the elements given to read_package: with or without point, ftext and font
Packages ==
  [id : Ids, pos : Modes \cup {""}, bg : {""},
   point : {<<>>} \cup {<<pt>> : pt \in Points},
   ftext : {<<>>} \cup {<<c>> : c \in Contents},
   font : {<<>>, <<[size |-> 18, family |-> "times", color |-> ""]>>}]

WellFormed(package) == package.point # <<>> /\ package.ftext # <<>>

----------------------------------------------------------------------------
(* Actions: one call on the atom each *)

Apply(w) ==
  /\ atom' = w.a
  /\ neighbors' = w.nb
  /\ canvas' = w.c
  /\ registry' = w.reg
  /\ nextid' = w.nid

Called(op) == last' = [op |-> op, exc |-> ""]

\* the canvas has ids left for the three objects of one more draw
CanDraw == nextid + 2 <= 3 * MaxDraws

\* the calls that configure or replace the atom's canvas objects are made on a
\* drawn atom: what the paper does with a None handle is not the atom's code
HasHandles == atom.item # NoHandle /\ atom.selector # NoHandle

SetX(x) == /\ atom' = set_x(atom, x)
           /\ Called("x")
           /\ UNCHANGED <<neighbors, canvas, registry, nextid>>

SetY(y) == /\ atom' = set_y(atom, y)
           /\ Called("y")
           /\ UNCHANGED <<neighbors, canvas, registry, nextid>>

SetZ(z) == /\ atom' = set_z(atom, z)
           /\ Called("z")
           /\ UNCHANGED <<neighbors, canvas, registry, nextid>>

SetMolecule(mol) == /\ atom' = set_molecule(atom, mol)
                    /\ Called("molecule")
                    /\ UNCHANGED <<neighbors, canvas, registry, nextid>>

SetName(name) == /\ atom' = set_name_property(atom, name)
                 /\ Called("name")
                 /\ UNCHANGED <<neighbors, canvas, registry, nextid>>

SetPos(pos) == /\ atom' = set_pos(atom, pos)
               /\ Called("pos")
               /\ UNCHANGED <<neighbors, canvas, registry, nextid>>

SetFontSize(size) == /\ atom' = set_font_size(atom, size)
                     /\ Called("font_size")
                     /\ UNCHANGED <<neighbors, canvas, registry, nextid>>

SetFontFamily(family) == /\ atom' = set_font_family(atom, family)
                         /\ Called("font_family")
                         /\ UNCHANGED <<neighbors, canvas, registry, nextid>>

SetCharge(charge) == /\ atom' = set_charge(atom, charge)
                     /\ Called("charge")
                     /\ UNCHANGED <<neighbors, canvas, registry, nextid>>

SetValency(val) == /\ atom' = set_valency(atom, val)
                   /\ Called("valency")
                   /\ UNCHANGED <<neighbors, canvas, registry, nextid>>

DecidePos == /\ atom' = decide_pos(atom, neighbors)
             /\ Called("decide_pos")
             /\ UNCHANGED <<neighbors, canvas, registry, nextid>>

UpdateFont == /\ atom' = update_font(atom)
              /\ Called("update_font")
              /\ UNCHANGED <<neighbors, canvas, registry, nextid>>

ScaleFont(num, den) == /\ scaled_size(atom.font_size, num, den) \in FontSizes
                       /\ atom' = scale_font(atom, num, den)
                       /\ Called("scale_font")
                       /\ UNCHANGED <<neighbors, canvas, registry, nextid>>

\* another atom's copy_settings( self, other) with this atom as other
CopySettings(from) == /\ atom' = copy_settings(atom, from)
                      /\ Called("copy_settings")
                      /\ UNCHANGED <<neighbors, canvas, registry, nextid>>

\* a bond to a vertex at x is added to, or the first bond taken from, the atom
AddNeighbor(x) == /\ Len(neighbors) < MaxNeighbors
                  /\ neighbors' = Append(neighbors, x)
                  /\ Called("add_neighbor")
                  /\ UNCHANGED <<atom, canvas, registry, nextid>>

RemoveNeighbor == /\ neighbors # <<>>
                  /\ neighbors' = Tail(neighbors)
                  /\ Called("remove_neighbor")
                  /\ UNCHANGED <<atom, canvas, registry, nextid>>

Draw == /\ CanDraw
        /\ Apply(draw(World))
        /\ Called("draw")

Redraw == /\ CanDraw
          /\ HasHandles
          /\ Apply(redraw(World))
          /\ Called("redraw")

Focus == /\ HasHandles
         /\ Apply(focus(World))
         /\ Called("focus")

Unfocus == /\ HasHandles
           /\ Apply(unfocus(World))
           /\ Called("unfocus")

Select == /\ HasHandles
          /\ Apply(select(World))
          /\ Called("select")

Unselect == /\ HasHandles
            /\ Apply(unselect(World))
            /\ Called("unselect")

Move(dx, dy) == /\ atom.x + dx \in Coords
                /\ atom.y + dy \in Coords
                /\ Apply(move(World, dx, dy))
                /\ Called("move")

MoveTo(x, y) == /\ Apply(move_to(World, x, y))
                /\ Called("move_to")

Delete == /\ Apply(delete(World))
          /\ Called("delete")

ToggleCenter(mode) == /\ CanDraw
                      /\ HasHandles
                      /\ Apply(toggle_center(World, mode))
                      /\ Called("toggle_center")

Lift == /\ Apply(lift(World))
        /\ Called("lift")

ReadPackage(package) ==
  LET r == read_package(atom, package)
  IN /\ atom' = r.a
     /\ last' = [op |-> "read_package", exc |-> r.exc]
     /\ UNCHANGED <<neighbors, canvas, registry, nextid>>

\* the document round trip: the atom is saved with get_package and a new atom
\* is constructed from the element, on a paper that holds nothing of the old one
Reload ==
  LET r == init_package(get_package(atom), atom.molecule)
  IN /\ canvas = <<>>
     /\ registry = {}
     /\ r.exc = ""
     /\ atom' = r.a
     /\ Called("reload")
     /\ UNCHANGED <<neighbors, canvas, registry, nextid>>

----------------------------------------------------------------------------
(* Specifications *)

Constructed == [op |-> "__init__", exc |-> ""]

\* the paper before the atom draws anything
EmptyPaper == canvas = <<>> /\ registry = {} /\ nextid = 1

\* the shifts given to move: none, right, down, and back up and left
Shifts == {<<0, 0>>, <<1, 0>>, <<0, 1>>, <<-1, -1>>}
\* the places given to move_to
Targets == {<<0, 0>>, <<MaxCoord, 0>>, <<0, MaxCoord>>}
ToggleModes == {-1, 0, 1, 2}

\* the elements the atoms on the canvas are constructed from: a label, a place
\* and a centering
CanvasPackages ==
  {p \in Packages : /\ p.id = "a1" /\ p.pos = CenterLast /\ p.font = <<>>
                    /\ p.ftext = <<parseString(<<"C">>)>>
                    /\ p.point # <<>> /\ p.point[1].z = <<>>}

CanvasInit ==
  /\ atom \in {init_xy("a1", x, y, None) : x \in Coords, y \in Coords}
              \cup {init_package(p, None).a : p \in CanvasPackages}
  /\ neighbors = <<>>
  /\ EmptyPaper
  /\ last = Constructed

\* The atom on the canvas: constructed from coordinates or from an element, then
\* drawn, selected, focused, moved, toggled, lifted and deleted.
Init == CanvasInit

Next ==
  \/ Draw
  \/ Redraw
  \/ Focus
  \/ Unfocus
  \/ Select
  \/ Unselect
  \/ \E d \in Shifts : Move(d[1], d[2])
  \/ \E t \in Targets : MoveTo(t[1], t[2])
  \/ Delete
  \/ \E mode \in ToggleModes : ToggleCenter(mode)
  \/ Lift

Spec == Init /\ [][Next]_vars

\* The same atom without the focus and the lift, which only change the fill of
\* the selector and the order of the display list.
NextMove ==
  \/ Draw
  \/ Redraw
  \/ Select
  \/ Unselect
  \/ \E d \in Shifts : Move(d[1], d[2])
  \/ \E t \in Targets : MoveTo(t[1], t[2])
  \/ Delete
  \/ \E mode \in ToggleModes : ToggleCenter(mode)

SpecMove == CanvasInit /\ [][NextMove]_vars

----------------------------------------------------------------------------
(* The atom and its documents: it is labelled and placed, reads elements,  *)
(* well-formed or not, and goes through the round trip of a document.      *)

\* the elements read: another id, a centering, with or without point, ftext, font
DocPackages ==
  {p \in Packages : /\ p.id = "a2" /\ p.pos = CenterLast
                    /\ (p.point # <<>> =>
                          /\ p.point[1].y = px_to_text_with_unit(screen_to_real(0))
                          /\ p.point[1].z \in {<<>>, px_to_text_with_unit(screen_to_real(MaxCoord))})}

NextDoc ==
  \/ \E name \in Names : SetName(name)
  \/ \E z \in Coords : SetZ(z)
  \/ \E package \in DocPackages : ReadPackage(package)
  \/ Reload

SpecDoc == CanvasInit /\ [][NextDoc]_vars

(* C1, as claimed: the atom constructed from get_package's element has the x, *)
(* y, z and name of the atom the element was built from.                      *)
C1_RoundTripKeepsName ==
  [][last'.op = "reload" =>
       /\ atom'.x = atom.x /\ atom'.y = atom.y /\ atom'.z = atom.z
       /\ atom'.name = atom.name]_vars

\* a label written the way toxml() writes it: no literal '>' or '"' in its
\* character data
Canonical(name) == \A i \in 1..Len(name) : name[i] \notin {">", "\""}

(* C1, amended: the round trip keeps x, y and z, and keeps the label as XML:  *)
(* the new name parses to the same tree, and is the same string whenever the  *)
(* name held no literal '>' or '"' (toxml() writes them as &gt; and &quot;).  *)
C1_RoundTripKeepsLabel ==
  [][last'.op = "reload" =>
       /\ atom'.x = atom.x /\ atom'.y = atom.y /\ atom'.z = atom.z
       /\ parseString(atom'.name) = parseString(atom.name)
       /\ (Canonical(atom.name) => atom'.name = atom.name)]_vars

\* an atom out of a round trip with a height and a label that holds an entity
C1_Witness ==
  /\ last.op = "reload"
  /\ atom.z # 0 /\ atom.x # 0
  /\ \E i \in 1..Len(atom.name) : atom.name[i] = "&gt;"

(* C7, as claimed: read_package on an element without ftext or without point  *)
(* ends in the 'not text atom' signal and leaves id, pos, x, y, z and name as *)
(* they were.                                                                 *)
C7_MalformedLeavesAtom ==
  [][\A package \in DocPackages :
       (~WellFormed(package) /\ ReadPackage(package)) =>
         /\ last'.exc = "not text atom"
         /\ atom'.id = atom.id /\ atom'.pos = atom.pos
         /\ atom'.x = atom.x /\ atom'.y = atom.y /\ atom'.z = atom.z
         /\ atom'.name = atom.name]_vars

----------------------------------------------------------------------------
(* The centering of the atom: pos is assigned, copied from another atom,   *)
(* read from an element, decided from the neighbours and toggled, while    *)
(* the atom is drawn and redrawn; charge and valency are assigned.         *)

\* the atoms whose settings are copied: one never drawn, one of each centering
OtherAtoms ==
  {init_xy("a2", 0, 0, None)} \cup {set_pos(init_xy("a2", 0, 0, None), pos) : pos \in Modes}

\* the elements read: each centering, and no pos attribute
PosPackages ==
  {p \in Packages : /\ p.id = "a1" /\ p.font = <<>> /\ WellFormed(p)
                    /\ p.ftext = <<parseString(<<"C">>)>>
                    /\ p.point[1] = [x |-> px_to_text_with_unit(screen_to_real(0)),
                                     y |-> px_to_text_with_unit(screen_to_real(0)),
                                     z |-> <<>>]}

Charges == {-1, 2}
Valencies == {0, 4}

PosInit ==
  /\ atom \in {init_xy("a1", x, 0, None) : x \in Coords}
  /\ neighbors = <<>>
  /\ EmptyPaper
  /\ last = Constructed

NextPos ==
  \/ \E pos \in Modes : SetPos(pos)
  \/ \E from \in OtherAtoms : CopySettings(from)
  \/ \E package \in PosPackages : ReadPackage(package)
  \/ \E x \in Coords : AddNeighbor(x)
  \/ RemoveNeighbor
  \/ DecidePos
  \/ Draw
  \/ Redraw
  \/ \E mode \in ToggleModes : ToggleCenter(mode)
  \/ \E charge \in Charges : SetCharge(charge)
  \/ \E val \in Valencies : SetValency(val)

SpecPos == PosInit /\ [][NextPos]_vars

(* C2, as claimed: pos is always one of the two centering modes. *)
C2_PosIsMode == atom.pos \in Modes

(* C2, amended: pos is None after the construction from coordinates and ''    *)
(* after reading an element without a pos attribute; given that only modes    *)
(* (or None, by copy_settings from such an atom) are assigned to it and read, *)
(* pos is None, '' or a mode, and it is one of the two modes after every      *)
(* draw, redraw, decide_pos and toggle_center.                                *)
C2_PosDecidedWhenDrawn ==
  /\ atom.pos \in Modes \cup {None, ""}
  /\ last.op \in {"draw", "redraw", "decide_pos", "toggle_center"} => atom.pos \in Modes

\* an atom left of its neighbour, drawn, with the centering draw() decided
C2_Witness ==
  /\ last.op = "draw"
  /\ balance(neighbors, atom.x) > 0
  /\ atom.pos = CenterLast
  /\ atom.item # NoHandle

(* C6: charge reads 0 and valency reads 1 in every state, and an assignment   *)
(* to charge or valency changes nothing of the atom, its neighbours or the    *)
(* paper.                                                                     *)
C6_ChargeValencyFixed ==
  [][/\ get_charge(atom) = 0 /\ get_charge(atom') = 0
     /\ get_valency(atom) = 1 /\ get_valency(atom') = 1
     /\ last'.op \in {"charge", "valency"} =>
          /\ atom' = atom
          /\ UNCHANGED <<neighbors, canvas, registry, nextid>>]_vars

\* a drawn and redrawn atom with a neighbour, just after an assignment to charge
C6_Witness ==
  /\ last.op = "charge"
  /\ neighbors # <<>>
  /\ atom.item # NoHandle
  /\ atom.dirty = 0

----------------------------------------------------------------------------
(* The attributes of the atom: every property with a setter in textatom is *)
(* assigned to an atom that is new or drawn, and the atom is redrawn.      *)

\* the labels assigned
Labels == {<<>>, <<"C">>}

\* a new atom at the origin of an empty paper
NewWorld ==
  [a |-> init_xy("a1", 0, 0, None), nb |-> <<>>, c |-> <<>>, reg |-> {}, nid |-> 1]

\* the atom is new, or new and drawn
AttrInit ==
  /\ \E w \in {NewWorld, draw(NewWorld)} :
       /\ atom = w.a
       /\ neighbors = w.nb
       /\ canvas = w.c
       /\ registry = w.reg
       /\ nextid = w.nid
  /\ last = Constructed

NextAttr ==
  \/ \E x \in Coords : SetX(x)
  \/ \E y \in Coords : SetY(y)
  \/ \E z \in Coords : SetZ(z)
  \/ \E mol \in Molecules : SetMolecule(mol)
  \/ \E name \in Labels : SetName(name)
  \/ \E pos \in Modes : SetPos(pos)
  \/ \E size \in {12, 18} : SetFontSize(size)
  \/ Redraw

SpecAttr == AttrInit /\ [][NextAttr]_vars

(* The font of the atom: its size and family are assigned, scaled, read    *)
(* from an element and regenerated, while the atom is drawn and redrawn.   *)

\* the ratios of scale_font, as numerator and denominator
Ratios == {<<2, 3>>, <<3, 2>>}

\* the elements read: a label, a place, with and without a font
FontPackages ==
  {p \in Packages : /\ p.id = "a1" /\ p.pos = "" /\ WellFormed(p)
                    /\ p.ftext = <<parseString(<<"C">>)>>
                    /\ p.point[1] = [x |-> px_to_text_with_unit(screen_to_real(0)),
                                     y |-> px_to_text_with_unit(screen_to_real(0)),
                                     z |-> <<>>]}

NextFont ==
  \/ \E size \in FontSizes : SetFontSize(size)
  \/ \E family \in FontFamilies : SetFontFamily(family)
  \/ \E r \in Ratios : ScaleFont(r[1], r[2])
  \/ UpdateFont
  \/ \E package \in FontPackages : ReadPackage(package)
  \/ Draw
  \/ Redraw

FontInit ==
  /\ atom = NewWorld.a
  /\ neighbors = <<>>
  /\ EmptyPaper
  /\ last = Constructed

SpecFont == FontInit /\ [][NextFont]_vars

(* C3, as claimed: after every operation the font of the atom is the one   *)
(* built from its current font_family and font_size.                       *)
C3_FontIsCurrent ==
  atom.font = [family |-> atom.font_family, size |-> atom.font_size]

PropertyNames == {"x", "y", "z", "molecule", "name", "pos", "font_size"}

(* C4, as claimed: an assignment to x, y, z, molecule, name, pos or        *)
(* font_size leaves dirty = 1, and dirty goes from 1 to 0 only in redraw.  *)
C4_EverySetterMarksDirty ==
  [][/\ last'.op \in PropertyNames => atom'.dirty = 1
     /\ (atom.dirty = 1 /\ atom'.dirty = 0) => last'.op = "redraw"]_vars

(* C4, amended: an assignment to name, pos or font_size leaves dirty = 1;  *)
(* an assignment to x, y, z or molecule leaves dirty as it was; and dirty  *)
(* goes from 1 to 0 only in redraw.                                        *)
C4_MarkingSettersMarkDirty ==
  [][/\ last'.op \in {"name", "pos", "font_size"} => atom'.dirty = 1
     /\ last'.op \in {"x", "y", "z", "molecule"} => atom'.dirty = atom.dirty
     /\ (atom.dirty = 1 /\ atom'.dirty = 0) => last'.op = "redraw"]_vars

\* a drawn atom, clean since its redraw, just after an assignment to x
C4_Witness ==
  /\ last.op = "x"
  /\ atom.dirty = 0
  /\ atom.item # NoHandle

----------------------------------------------------------------------------
(* Claims about the atom on the canvas *)

\* the canvas objects the atom holds handles to
Held(a) == {a.item, a.selector, a.ftext}

(* C5, as claimed: after delete() nothing the atom created is left on the  *)
(* canvas (the atom is the only one that draws on this paper), the id      *)
(* registration is gone, and drawn = 0, selector = None, _selected = 0.    *)
C5_DeleteRemovesAll ==
  last.op = "delete" =>
    /\ canvas = <<>>
    /\ registry = {}
    /\ drawn(atom) = 0
    /\ atom.selector = NoHandle
    /\ atom._selected = 0

\* the text on the canvas is where the atom is: its box is the box of the
\* atom's text at the atom's x and y
InStep(a, c) ==
  drawn(a) = 1 => Obj(c, a.ftext).box = ftext_bbox(a.x, a.y, a.text, a.font, a.pos)

\* what move( dx, dy) does, from the state before to the state after
Shifted(dx, dy) ==
  /\ atom'.x = atom.x + dx
  /\ atom'.y = atom.y + dy
  /\ drawn(atom) = 1 =>
       /\ Held(atom') = Held(atom)
       /\ \A h \in Held(atom) : /\ h \in CanvasIds(canvas')
                                /\ Obj(canvas', h).box = MoveBox(Obj(canvas, h).box, dx, dy)
                                /\ Obj(canvas', h).outline = Obj(canvas, h).outline
  /\ InStep(atom, canvas) => InStep(atom', canvas')
  /\ atom'.dirty = atom.dirty
  /\ atom'.pos = atom.pos
  /\ atom'.name = atom.name
  /\ atom'._selected = atom._selected

(* C8: move( dx, dy) adds dx and dy to x and y and, on a drawn atom, shifts *)
(* the item, the selector and the ftext by dx, dy, so that the text stays   *)
(* where the atom is; dirty, pos, name and the selection are as before; and *)
(* move_to( x, y) leaves get_xy() = (x, y).                                 *)
C8_MoveShiftsAtomAndCanvas ==
  [][/\ last'.op = "move" =>
          \A d \in Shifts : Move(d[1], d[2]) => Shifted(d[1], d[2])
     /\ last'.op = "move_to" =>
          \A t \in Targets : MoveTo(t[1], t[2]) => get_xy(atom') = t]_vars

\* a drawn, selected atom just moved, away from the place it was drawn at
C8_Witness ==
  /\ last.op = "move"
  /\ drawn(atom) = 1
  /\ atom._selected = 1
  /\ Obj(canvas, atom.item).box.x2 = MaxCoord
  /\ atom.x = MaxCoord /\ atom.y = MaxCoord

\* what toggle_center( mode) does, from the state before to the state after
Toggled(mode) ==
  /\ (mode = 0 /\ atom.pos = CenterFirst) => atom'.pos = CenterLast
  /\ (mode = 0 /\ atom.pos = CenterLast) => atom'.pos = CenterFirst
  /\ mode = -1 => atom'.pos = CenterFirst
  /\ mode \notin {0, -1} => atom'.pos = CenterLast
  /\ (mode = 0 /\ atom.pos \in Modes) => toggled_pos(atom'.pos, 0) = atom.pos
  /\ drawn(atom') = 1
  /\ {atom'.item, atom'.selector} \subseteq CanvasIds(canvas')
  /\ atom'.dirty = 0
  /\ atom'._selected = atom._selected
  /\ Obj(canvas', atom'.selector).outline = IF atom._selected = 1 THEN "black" ELSE ""

(* C9: toggle_center on a drawn atom switches pos between the two modes    *)
(* with mode 0 (twice gives the pos back), sets center-first with mode -1  *)
(* and center-last with any other mode, and redraws: the atom is drawn,    *)
(* dirty = 0, and it is selected, with its outline, as it was before.      *)
C9_ToggleCenterSwitchesAndRedraws ==
  [][last'.op = "toggle_center" =>
       \A mode \in ToggleModes : ToggleCenter(mode) => Toggled(mode)]_vars

\* a selected atom just toggled back to center-first
C9_Witness ==
  /\ last.op = "toggle_center"
  /\ atom._selected = 1
  /\ atom.pos = CenterFirst
  /\ atom.text # <<>>

(* C10, as claimed: whenever the atom has a selector, the outline of the   *)
(* selector is 'black' exactly when _selected = 1 and '' exactly when      *)
(* _selected = 0.                                                          *)
C10_OutlineShowsSelection ==
  atom.selector # NoHandle =>
    /\ Obj(canvas, atom.selector).outline = "black" <=> atom._selected = 1
    /\ Obj(canvas, atom.selector).outline = "" <=> atom._selected = 0

\* the objects of a kind on the canvas (the atom is the only one that draws on it)
OfKind(kind) == {i \in DOMAIN canvas : canvas[i].kind = kind}

(* C11, as claimed: the canvas holds at most one item, one selector and one *)
(* ftext created by the atom; every handle the atom holds (item, selector,  *)
(* ftext not None) is of an object on the canvas; and the id registry holds *)
(* exactly the atom's current item, and no other.                           *)
C11_HandleIntegrity ==
  /\ \A kind \in {"item", "selector", "ftext"} : Cardinality(OfKind(kind)) <= 1
  /\ (Held(atom) \ {NoHandle}) \subseteq CanvasIds(canvas)
  /\ registry = {atom.item} \ {NoHandle}

=============================================================================
